---- MODULE Spec2Model ----
(***************************************************************************)
(* The per-gameweek state machine of simulation/simulator.py: the fields   *)
(* of a Simulator object, its construction, and Simulator.update.          *)
(* The helpers imported from simulation/utils.py are not part of the       *)
(* source files at hand; they are written from their contracts in the      *)
(* design document (sections 4.1 - 4.4).                                   *)
(***************************************************************************)
EXTENDS Integers, Sequences, FiniteSets, TLC

VARIABLES
    season,                 \* self.season
    next_gameweek,          \* self.next_gameweek
    season_points,          \* self.season_points
    squad,                  \* self.squad
    budget,                 \* self.budget
    purchase_prices,        \* self.purchase_prices
    free_transfers,         \* self.free_transfers
    static_elements_cache,  \* gameweeks memoized by _get_static_elements
    all_valid,              \* history: every update call so far had valid roles
    last,                   \* history: the last call, its end, inputs, locals
    lru,                    \* _get_static_elements: memoized keys, oldest use first
    provider_calls,         \* load_static_elements: invocations so far, by key
    ledger,                 \* history: the rounds played, one entry per round
    probe                   \* a helper evaluated in isolation: inputs, result

fields == <<season, next_gameweek, season_points, squad, budget,
            purchase_prices, free_transfers>>
observers == <<lru, provider_calls, ledger, probe>>
vars == <<season, next_gameweek, season_points, squad, budget,
          purchase_prices, free_transfers, static_elements_cache,
          all_valid, last, observers>>

----------------------------------------------------------------------------
(* Bounds of the exploration *)

NumPlayers == 18        \* player ids 1..NumPlayers exist in the snapshots
MaxRounds == 7          \* Spec calls update while next_gameweek <= MaxRounds
PlayedRounds == 2       \* the results frame has rows for rounds 1..PlayedRounds
MaxAbsPoints == 12      \* update is explored while |season_points| stays within
MaxOverrun == 1         \* SpecSeason calls update up to last_gameweek + MaxOverrun
PriceSpan == 40         \* SpecPricing prices a player from 30 to 30 + PriceSpan
MaxAbsent == 3          \* SpecScoring: at most MaxAbsent of the 15 did not play
LedgerRounds == 3       \* SpecLedger calls update while next_gameweek <= LedgerRounds
SweepKeys == 130        \* SpecCache fetches the first SweepKeys keys of its sweep

(* Program constants *)

first_gameweek == 1
last_gameweek == 38
lru_maxsize == 128      \* @functools.lru_cache, used without arguments

Seasons == {"2021-22", "2022-23"}
Players == 1..NumPlayers
no_player == 0          \* Python's None where a player id is expected

----------------------------------------------------------------------------
(* Generic helpers *)

Range(s) == {s[i] : i \in DOMAIN s}

RECURSIVE SumSet(_, _)
SumSet(f, S) ==
    IF S = {} THEN 0
    ELSE LET x == CHOOSE y \in S : TRUE IN f[x] + SumSet(f, S \ {x})

RECURSIVE SumSeq(_, _)
SumSeq(f, s) ==
    IF s = <<>> THEN 0 ELSE f[Head(s)] + SumSeq(f, Tail(s))

Max(a, b) == IF a >= b THEN a ELSE b
Min(a, b) == IF a <= b THEN a ELSE b

----------------------------------------------------------------------------
(* What the external providers return.  The data of a (season, gameweek)   *)
(* key is fixed: the same for every fetch of the key.                      *)

\* the gameweeks a run can ask the providers about
Gameweeks == 1..(last_gameweek + MaxOverrun + 1)

\* element_type column of the static elements
element_type_of(p) ==
    CASE p \in {1, 2} -> "GKP"
      [] p \in (3..7) \cup {18} -> "DEF"
      [] p \in (8..12) \cup {16} -> "MID"
      [] OTHER -> "FWD"

\* now_cost column of the static elements of gameweek gw: player 15 drops by
\* 3 after the first round and rises by 5 after the third
now_cost_of(gw, p) ==
    40 + p + (IF p = 15 /\ gw >= 2 THEN -3 ELSE 0)
           + (IF p = 15 /\ gw >= 4 THEN 5 ELSE 0)

\* minutes column of the results: players 1 and 9 sat out the second round
minutes_of(gw, p) == IF gw = 2 /\ p \in {1, 9} THEN 0 ELSE 90

\* total_points column of the results: player 13 scores 2 when he plays
total_points_of(gw, p) ==
    IF minutes_of(gw, p) > 0 /\ p = 13 THEN 2 ELSE 0

\* load_static_elements(season, gameweek), by column
static_element_types == [gw \in Gameweeks |-> [p \in Players |-> element_type_of(p)]]
static_now_costs == [gw \in Gameweeks |-> [p \in Players |-> now_cost_of(gw, p)]]

\* load_results(season), by column: rounds 1..PlayedRounds have been played
results_minutes ==
    [gw \in 1..PlayedRounds |-> [p \in Players |-> minutes_of(gw, p)]]
results_total_points ==
    [gw \in 1..PlayedRounds |-> [p \in Players |-> total_points_of(gw, p)]]

no_rows == [p \in {} |-> 0]
zero_points == [p \in Players |-> 0]

\* get_mapper(self.static_elements, "id", "element_type")
element_types_at(gw) == static_element_types[gw]

\* get_mapper(self.static_elements, "id", "now_cost")
now_costs_at(gw) == static_now_costs[gw]

\* get_mapper(gameweek_results, "element", "minutes"), where gameweek_results
\* is self.results.filter(pl.col("round") == gw)
minutes_at(gw) ==
    IF gw \in DOMAIN results_minutes THEN results_minutes[gw] ELSE no_rows

\* defaultdict(lambda: 0, get_mapper(gameweek_results, "element", "total_points"))
total_points_at(gw) ==
    IF gw \in DOMAIN results_total_points THEN results_total_points[gw]
    ELSE zero_points

----------------------------------------------------------------------------
(* simulation/utils.py, from the contracts of the design document *)

\* faulty variant of selling_price: half of the drop is rounded the other way
selling_price_rounded_up(purchase, market) ==
    IF market >= purchase THEN market
    ELSE Min(purchase, (purchase + market + 1) \div 2)

\* Pricing Engine: the selling price of one player
selling_price(purchase, market) ==
    IF market >= purchase THEN market
    ELSE Min(purchase, (purchase + market) \div 2)

\* get_selling_prices(squad, purchase_prices, now_costs)
get_selling_prices(sq, purchases, now_costs) ==
    [p \in sq |-> selling_price(purchases[p], now_costs[p])]

\* get_purchase_prices(squad, static_elements): the price paid is the market's
get_purchase_prices(sq, now_costs) == [p \in sq |-> now_costs[p]]

\* update_purchase_prices(new_squad, purchase_prices, now_costs)
update_purchase_prices(new_squad, purchases, now_costs) ==
    [p \in new_squad |->
        IF p \in DOMAIN purchases THEN purchases[p] ELSE now_costs[p]]

\* calculate_budget(squad, new_squad, budget, selling_prices, now_costs)
calculate_budget(old_squad, new_squad, old_budget, selling, now_costs) ==
    old_budget + SumSet(selling, old_squad \ new_squad)
               - SumSet(now_costs, new_squad \ old_squad)

\* calculate_team_value(squad, selling_prices, budget)
calculate_team_value(sq, selling, bank) == SumSet(selling, sq) + bank

\* Transfer Accountant: count_transfers(squad, new_squad)
count_transfers(old_squad, new_squad) == Cardinality(old_squad \ new_squad)

\* the round is the season's first one or a wildcard round
exempt_round(gw, wildcard_gameweeks) ==
    gw = 1 \/ gw \in Range(wildcard_gameweeks)

\* calculate_transfer_cost(free_transfers, transfers_made, gameweek, wildcards)
calculate_transfer_cost(ft, made, gw, wildcard_gameweeks) ==
    IF exempt_round(gw, wildcard_gameweeks) THEN 0
    ELSE 4 * Max(0, made - ft)

\* update_free_transfers(free_transfers, transfers_made, gameweek, wildcards)
update_free_transfers(ft, made, gw, wildcard_gameweeks) ==
    IF exempt_round(gw, wildcard_gameweeks) THEN ft
    ELSE Max(0, Min(5, ft - made + 1))

\* Substitution Resolver.  A player played when the round has a row with
\* minutes > 0 for him; a player with no row did not play.
played(minutes, p) == p \in DOMAIN minutes /\ minutes[p] > 0

count_type(xi, element_types, t) ==
    Cardinality({i \in DOMAIN xi :
        xi[i] \in DOMAIN element_types /\ element_types[xi[i]] = t})

\* faulty variant of formation_valid: any XI passes
formation_unchecked(xi, element_types) == TRUE

\* at least 1 goalkeeper, 3 defenders and 1 forward
formation_valid(xi, element_types) ==
    /\ count_type(xi, element_types, "GKP") >= 1
    /\ count_type(xi, element_types, "DEF") >= 3
    /\ count_type(xi, element_types, "FWD") >= 1

is_type(element_types, p, types) ==
    p \in DOMAIN element_types /\ element_types[p] \in types

\* faulty variant of swap_roles: the starter who goes out is dropped
swap_roles_losing_starter(roles, i, k) ==
    [roles EXCEPT !.starting_xi[i] = roles[k]]

\* starter number i and the reserve in slot k change places
swap_roles(roles, i, k) ==
    [roles EXCEPT !.starting_xi[i] = roles[k], ![k] = roles.starting_xi[i]]

\* the reserve goalkeeper replaces a starting goalkeeper who did not play
substitute_gkp(roles, minutes, element_types) ==
    LET out == {i \in DOMAIN roles.starting_xi :
                    /\ is_type(element_types, roles.starting_xi[i], {"GKP"})
                    /\ ~played(minutes, roles.starting_xi[i])}
    IN  IF out # {} /\ played(minutes, roles.reserve_gkp)
        THEN swap_roles(roles, CHOOSE i \in out : \A j \in out : i <= j,
                        "reserve_gkp")
        ELSE roles

\* faulty variant of reserve_slots: the last reserve is tried first
reserve_slots_reversed == <<"reserve_out_3", "reserve_out_2", "reserve_out_1">>

\* the slots of the outfield reserves, in the order they are tried
reserve_slots == <<"reserve_out_1", "reserve_out_2", "reserve_out_3">>

\* the outfield reserves, in their order, against the outfield starters who
\* did not play, in the order of the nominal list
RECURSIVE substitute_outfield(_, _, _, _)
substitute_outfield(roles, i, minutes, element_types) ==
    IF i > Len(roles.starting_xi) THEN roles
    ELSE
        LET p == roles.starting_xi[i]
            ok == {k \in DOMAIN reserve_slots :
                    /\ played(minutes, roles[reserve_slots[k]])
                    /\ formation_valid(
                          swap_roles(roles, i, reserve_slots[k]).starting_xi,
                          element_types)}
        IN  IF /\ is_type(element_types, p, {"DEF", "MID", "FWD"})
               /\ ~played(minutes, p)
               /\ ok # {}
            THEN substitute_outfield(
                    swap_roles(roles, i,
                        reserve_slots[CHOOSE k \in ok : \A j \in ok : k <= j]),
                    i + 1, minutes, element_types)
            ELSE substitute_outfield(roles, i + 1, minutes, element_types)

\* the captain that scoring uses: the captain if he played, else the
\* vice-captain if he played, else nobody
effective_captain(roles, minutes) ==
    IF played(minutes, roles.captain) THEN roles.captain
    ELSE IF played(minutes, roles.vice_captain) THEN roles.vice_captain
    ELSE no_player

\* make_automatic_substitutions(roles, minutes, element_types)
make_automatic_substitutions(roles, minutes, element_types) ==
    LET swapped == substitute_outfield(
                       substitute_gkp(roles, minutes, element_types),
                       1, minutes, element_types)
    IN  [swapped EXCEPT !.captain = effective_captain(roles, minutes)]

\* Scoring Engine: calculate_points(roles, total_points)
calculate_points(roles, total_points) ==
    SumSeq(total_points, roles.starting_xi)
    + (IF roles.captain = no_player THEN 0 ELSE total_points[roles.captain])

\* make_random_squad(static_elements): the squad the draft gives, and the
\* bank it leaves
InitialBank == 25
initial_squads == {1..15}

----------------------------------------------------------------------------
(* The inputs of update *)

mk_roles(xi, gkp, out_1, out_2, out_3, captain, vice_captain) ==
    [starting_xi |-> xi, reserve_gkp |-> gkp, reserve_out_1 |-> out_1,
     reserve_out_2 |-> out_2, reserve_out_3 |-> out_3,
     captain |-> captain, vice_captain |-> vice_captain]

nominal_xi == <<1, 3, 4, 5, 6, 8, 9, 10, 11, 13, 14>>

\* role assignments that keep the invariants of a role assignment
valid_role_choices ==
    { mk_roles(nominal_xi, 2, 7, 12, 15, 13, 8),
      mk_roles(nominal_xi, 2, 7, 12, 17, 13, 8),
      mk_roles(nominal_xi, 2, 16, 18, 17, 13, 8) }

\* role assignments that break them: a reserve named twice, a vice-captain
\* who is a reserve
invalid_role_choices ==
    { mk_roles(nominal_xi, 2, 7, 7, 15, 13, 8),
      mk_roles(nominal_xi, 2, 7, 12, 15, 13, 7) }

role_choices == valid_role_choices \cup invalid_role_choices

\* wildcard lists: without the round at hand, and with it
wildcard_choices(gw) == {<<>>, <<gw, gw + 1>>}

\* the invariants of a role assignment (design document, section 3)
roles_valid(roles) ==
    LET xi == Range(roles.starting_xi)
        reserves == {roles.reserve_gkp, roles.reserve_out_1,
                     roles.reserve_out_2, roles.reserve_out_3}
    IN  /\ Len(roles.starting_xi) = 11
        /\ Cardinality(xi) = 11
        /\ Cardinality(reserves) = 4
        /\ xi \cap reserves = {}
        /\ roles.captain \in xi
        /\ roles.vice_captain \in xi
        /\ roles.captain # roles.vice_captain

----------------------------------------------------------------------------
(* class Simulator *)

\* __init__, initialize_data and initialize_team
Init ==
    /\ season \in Seasons
    /\ next_gameweek = first_gameweek
    /\ season_points = 0
    /\ squad \in initial_squads
    /\ budget = InitialBank
    /\ purchase_prices = get_purchase_prices(squad, now_costs_at(first_gameweek))
    /\ free_transfers = 0
    /\ static_elements_cache = {first_gameweek}
    /\ all_valid = TRUE
    /\ last = [outcome |-> "init", valid |-> TRUE, gameweek |-> 0,
               free_transfers |-> 0, wildcard_gameweeks |-> <<>>,
               transfers_made |-> 0, transfer_cost |-> 0,
               gameweek_points |-> 0]

\* nothing memoized beyond static_elements_cache, nothing recorded, no
\* helper under evaluation
no_rounds == <<>>
no_probe == [op |-> "none"]
no_calls == [k \in {} |-> 0]
Idle ==
    /\ lru = <<>>
    /\ provider_calls = no_calls
    /\ ledger = no_rounds
    /\ probe = no_probe

\* the simulator as constructed, nothing else followed
InitIdle == Init /\ Idle

\* faulty variant of selling_prices: the market prices are handed out
selling_prices_at_market ==
    [p \in squad |-> now_costs_at(next_gameweek)[p]]

\* the property selling_prices: the current squad at the current snapshot
selling_prices ==
    get_selling_prices(squad, purchase_prices, now_costs_at(next_gameweek))

\* faulty variant of new_squad_of: the last reserve is left out
new_squad_without_last_reserve(roles) ==
    Range(roles.starting_xi) \cup
        {roles.reserve_gkp, roles.reserve_out_1, roles.reserve_out_2}

\* update: the squad named by the roles
new_squad_of(roles) ==
    Range(roles.starting_xi) \cup
        {roles.reserve_gkp, roles.reserve_out_1, roles.reserve_out_2,
         roles.reserve_out_3}

\* update: the points of the round gw, after automatic substitutions
gameweek_points_at(gw, roles) ==
    calculate_points(
        make_automatic_substitutions(roles, minutes_at(gw),
                                     element_types_at(gw)),
        total_points_at(gw))

\* the same, worked out once for every gameweek and role assignment
gameweek_points_table ==
    [gw \in Gameweeks |->
        [roles \in role_choices |-> gameweek_points_at(gw, roles)]]

gameweek_points_of(roles) == gameweek_points_table[next_gameweek][roles]

\* faulty variant of transfer_cost_of: the first two arguments change places
transfer_cost_swapped(roles, wildcard_gameweeks) ==
    calculate_transfer_cost(count_transfers(squad, new_squad_of(roles)),
        free_transfers, next_gameweek, wildcard_gameweeks)

\* update: the cost of the transfers
transfer_cost_of(roles, wildcard_gameweeks) ==
    calculate_transfer_cost(free_transfers,
        count_transfers(squad, new_squad_of(roles)),
        next_gameweek, wildcard_gameweeks)

\* faulty variant of new_budget_of: the players who leave are sold at the
\* market price
new_budget_of_market_sale(roles) ==
    calculate_budget(squad, new_squad_of(roles), budget,
                     now_costs_at(next_gameweek), now_costs_at(next_gameweek))

\* update: the budget after the transfers
new_budget_of(roles) ==
    calculate_budget(squad, new_squad_of(roles), budget, selling_prices,
                     now_costs_at(next_gameweek))

\* faulty variant of new_purchase_prices_of: every player of the new squad
\* is priced at the market
new_purchase_prices_at_market(roles) ==
    get_purchase_prices(new_squad_of(roles), now_costs_at(next_gameweek))

\* update: the purchase prices after the transfers
new_purchase_prices_of(roles) ==
    update_purchase_prices(new_squad_of(roles), purchase_prices,
                           now_costs_at(next_gameweek))

\* faulty variant of new_free_transfers_of: the wildcard list is not passed
new_free_transfers_no_wildcards(roles, wildcard_gameweeks) ==
    update_free_transfers(free_transfers,
        count_transfers(squad, new_squad_of(roles)),
        next_gameweek, <<>>)

\* update: the selling prices of the new squad
new_selling_prices_of(roles) ==
    get_selling_prices(new_squad_of(roles), new_purchase_prices_of(roles),
                       now_costs_at(next_gameweek))

\* update: the value of the new squad and the bank
new_team_value_of(roles) ==
    calculate_team_value(new_squad_of(roles), new_selling_prices_of(roles),
                         new_budget_of(roles))

\* faulty variant of new_free_transfers_of: the arithmetic done in place,
\* without the helper's exemption and limits
new_free_transfers_unclamped(roles, wildcard_gameweeks) ==
    free_transfers - count_transfers(squad, new_squad_of(roles)) + 1

\* faulty variant of new_free_transfers_of: the round after next_gameweek
\* is handed to the helper, so the first round is not exempt
new_free_transfers_of_following_round(roles, wildcard_gameweeks) ==
    update_free_transfers(free_transfers,
        count_transfers(squad, new_squad_of(roles)),
        next_gameweek + 1, wildcard_gameweeks)

\* update: the free transfers after the round
new_free_transfers_of(roles, wildcard_gameweeks) ==
    update_free_transfers(free_transfers,
        count_transfers(squad, new_squad_of(roles)),
        next_gameweek, wildcard_gameweeks)

\* faulty variant of season_points_after: the cost is added
season_points_after_adding_cost(roles, wildcard_gameweeks) ==
    season_points + gameweek_points_of(roles)
                  + transfer_cost_of(roles, wildcard_gameweeks)

\* update: the overall points tally
season_points_after(roles, wildcard_gameweeks) ==
    season_points + gameweek_points_of(roles)
                  - transfer_cost_of(roles, wildcard_gameweeks)

\* faulty variant of next_gameweek_after: the season is not looked at
next_gameweek_after_any_season(gw) ==
    IF gw + 1 = 7 THEN 8 ELSE gw + 1

\* update: move to the next gameweek, skipping the cancelled one
next_gameweek_after(gw) ==
    IF season = "2022-23" /\ gw + 1 = 7 THEN 8 ELSE gw + 1

\* the record of a call: how it ended, whether its roles were valid, the
\* gameweek and the free transfers it started from, and what it had
\* computed by then
called(roles, wildcard_gameweeks, outcome) ==
    IF outcome = "DataUnavailable"
    THEN [outcome |-> outcome, valid |-> roles_valid(roles),
          gameweek |-> next_gameweek, free_transfers |-> free_transfers,
          wildcard_gameweeks |-> <<>>, transfers_made |-> 0,
          transfer_cost |-> 0, gameweek_points |-> 0]
    ELSE [outcome |-> outcome, valid |-> roles_valid(roles),
          gameweek |-> next_gameweek, free_transfers |-> free_transfers,
          wildcard_gameweeks |-> wildcard_gameweeks,
          transfers_made |-> count_transfers(squad, new_squad_of(roles)),
          transfer_cost |-> transfer_cost_of(roles, wildcard_gameweeks),
          gameweek_points |-> gameweek_points_of(roles)]

\* update, when load_static_elements raises for a gameweek that is not
\* memoized yet: nothing has been assigned
UpdateDataUnavailable(roles, wildcard_gameweeks, log) ==
    /\ next_gameweek \notin static_elements_cache
    /\ last' = called(roles, wildcard_gameweeks, "DataUnavailable")
    /\ all_valid' = (all_valid /\ roles_valid(roles))
    /\ UNCHANGED <<fields, static_elements_cache>>

\* update, when print_gameweek_summary raises: the tally has been assigned
UpdatePrintFails(roles, wildcard_gameweeks, log) ==
    /\ log
    /\ season_points' = season_points_after(roles, wildcard_gameweeks)
    /\ static_elements_cache' = static_elements_cache \cup {next_gameweek}
    /\ last' = called(roles, wildcard_gameweeks, "PrintFailed")
    /\ all_valid' = (all_valid /\ roles_valid(roles))
    /\ UNCHANGED <<season, next_gameweek, squad, budget, purchase_prices,
                   free_transfers>>

\* update, run to its end
UpdateReturns(roles, wildcard_gameweeks, log) ==
    /\ season_points' = season_points_after(roles, wildcard_gameweeks)
    /\ squad' = new_squad_of(roles)
    /\ budget' = new_budget_of(roles)
    /\ purchase_prices' = new_purchase_prices_of(roles)
    /\ free_transfers' = new_free_transfers_of(roles, wildcard_gameweeks)
    /\ next_gameweek' = next_gameweek_after(next_gameweek)
    /\ static_elements_cache' = static_elements_cache \cup {next_gameweek}
    /\ last' = called(roles, wildcard_gameweeks, "ok")
    /\ all_valid' = (all_valid /\ roles_valid(roles))
    /\ UNCHANGED season

\* a call is explored up to gameweek limit, while the tally stays in range;
\* the memo is followed as the set static_elements_cache, and nothing is
\* recorded in the ledger
explored(limit, call) ==
    /\ next_gameweek <= limit
    /\ call
    /\ season_points' \in -MaxAbsPoints..MaxAbsPoints
    /\ UNCHANGED observers

\* every input of the choice sets, in the first MaxRounds gameweeks
AnyUpdateDataUnavailable ==
    \E roles \in role_choices, log \in BOOLEAN :
        \E wildcard_gameweeks \in wildcard_choices(next_gameweek) :
            explored(MaxRounds,
                UpdateDataUnavailable(roles, wildcard_gameweeks, log))

AnyUpdatePrintFails ==
    \E roles \in role_choices, log \in BOOLEAN :
        \E wildcard_gameweeks \in wildcard_choices(next_gameweek) :
            explored(MaxRounds,
                UpdatePrintFails(roles, wildcard_gameweeks, log))

AnyUpdateReturns ==
    \E roles \in role_choices, log \in BOOLEAN :
        \E wildcard_gameweeks \in wildcard_choices(next_gameweek) :
            explored(MaxRounds,
                UpdateReturns(roles, wildcard_gameweeks, log))

Next == AnyUpdateDataUnavailable \/ AnyUpdatePrintFails \/ AnyUpdateReturns

Spec == InitIdle /\ [][Next]_vars

\* a whole season and beyond its end, of calls that keep the squad
keeping_roles == {r \in valid_role_choices : new_squad_of(r) = squad}

KeepUpdateDataUnavailable ==
    \E roles \in keeping_roles, log \in BOOLEAN :
        explored(last_gameweek + MaxOverrun,
            UpdateDataUnavailable(roles, <<>>, log))

KeepUpdatePrintFails ==
    \E roles \in keeping_roles, log \in BOOLEAN :
        explored(last_gameweek + MaxOverrun,
            UpdatePrintFails(roles, <<>>, log))

KeepUpdateReturns ==
    \E roles \in keeping_roles, log \in BOOLEAN :
        explored(last_gameweek + MaxOverrun,
            UpdateReturns(roles, <<>>, log))

NextSeason ==
    KeepUpdateDataUnavailable \/ KeepUpdatePrintFails \/ KeepUpdateReturns

SpecSeason == InitIdle /\ [][NextSeason]_vars

\* the first rounds of a season with every call that returns entered in
\* the ledger; print_gameweek_summary does not raise
LedgerUpdateDataUnavailable ==
    \E roles \in role_choices, log \in BOOLEAN :
        \E wildcard_gameweeks \in wildcard_choices(next_gameweek) :
            /\ next_gameweek <= LedgerRounds
            /\ UpdateDataUnavailable(roles, wildcard_gameweeks, log)
            /\ UNCHANGED observers

LedgerUpdateReturns ==
    \E roles \in role_choices, log \in BOOLEAN :
        \E wildcard_gameweeks \in wildcard_choices(next_gameweek) :
            /\ next_gameweek <= LedgerRounds
            /\ UpdateReturns(roles, wildcard_gameweeks, log)
            /\ ledger' = Append(ledger, last')
            /\ UNCHANGED <<lru, provider_calls, probe>>

NextLedger == LedgerUpdateDataUnavailable \/ LedgerUpdateReturns

SpecLedger == InitIdle /\ [][NextLedger]_vars

----------------------------------------------------------------------------
(* The memo of _get_static_elements on its own: the keys in the order of   *)
(* their last use, and the invocations of load_static_elements.  The       *)
(* provider has data for every key, and the same data at every invocation. *)

\* the seasons simulated one after the other in the process, the season of
\* the simulator at hand first
sweep_seasons == <<season, "2018-19", "2019-20", "2020-21">>

\* key number n of the sweep: season after season, round after round
key_of(n) ==
    <<sweep_seasons[((n - 1) \div last_gameweek) + 1],
      ((n - 1) % last_gameweek) + 1>>

\* one call of _get_static_elements(season, gameweek): a key of the memo
\* becomes the most recently used; for any other key the provider is
\* invoked, the result is memoized, and beyond lru_maxsize keys the least
\* recently used one is dropped
get_static_elements(key) ==
    IF key \in Range(lru)
    THEN /\ lru' = Append(SelectSeq(lru, LAMBDA k : k # key), key)
         /\ UNCHANGED provider_calls
    ELSE /\ lru' = IF Len(lru) >= lru_maxsize
                   THEN Append(Tail(lru), key)
                   ELSE Append(lru, key)
         /\ provider_calls' =
                [k \in DOMAIN provider_calls \cup {key} |->
                    (IF k \in DOMAIN provider_calls
                     THEN provider_calls[k] ELSE 0)
                    + (IF k = key THEN 1 ELSE 0)]

\* the simulator as constructed: initialize_team has fetched the first key
CacheInputs ==
    /\ lru = <<key_of(1)>>
    /\ provider_calls = [k \in {key_of(1)} |-> 1]
    /\ ledger = no_rounds
    /\ probe = [op |-> "fetch", fetched |-> 1]

\* the next key of the sweep is fetched
FetchNextKey ==
    /\ probe.op = "fetch"
    /\ probe.fetched < SweepKeys
    /\ get_static_elements(key_of(probe.fetched + 1))
    /\ probe' = [probe EXCEPT !.fetched = @ + 1]
    /\ UNCHANGED <<fields, static_elements_cache, all_valid, last, ledger>>

\* the first key is fetched again
FetchFirstKeyAgain ==
    /\ probe.op = "fetch"
    /\ get_static_elements(key_of(1))
    /\ UNCHANGED <<fields, static_elements_cache, all_valid, last, ledger,
                   probe>>

NextCache == FetchNextKey \/ FetchFirstKeyAgain

InitCache == Init /\ CacheInputs

SpecCache == InitCache /\ [][NextCache]_vars

----------------------------------------------------------------------------
(* The Pricing Engine on its own: one player, every pair of prices *)

prices == 30..(30 + PriceSpan)

\* the simulator as constructed, and a purchase price and a market price
\* still to be turned into a selling price
PricingInputs ==
    /\ lru = <<>>
    /\ provider_calls = no_calls
    /\ ledger = no_rounds
    /\ probe \in [op : {"get_selling_prices"}, purchase : prices,
                  market : prices, done : {FALSE}, result : {0}]

\* get_selling_prices(squad, purchase_prices, now_costs), as update and
\* the property selling_prices call it, for a squad of the one player
GetSellingPrices ==
    /\ probe.op = "get_selling_prices"
    /\ ~probe.done
    /\ probe' = [probe EXCEPT !.done = TRUE,
                    !.result = get_selling_prices({1},
                                   [p \in {1} |-> probe.purchase],
                                   [p \in {1} |-> probe.market])[1]]
    /\ UNCHANGED <<fields, static_elements_cache, all_valid, last,
                   lru, provider_calls, ledger>>

NextPricing == GetSellingPrices

InitPricing == Init /\ PricingInputs

SpecPricing == InitPricing /\ [][NextPricing]_vars

----------------------------------------------------------------------------
(* The scoring of one round on its own: lines 107 - 109 of update, for     *)
(* role assignments of several formations and any few players absent       *)

\* role assignments that keep the invariants: four defenders and two
\* forwards; exactly three defenders, a defender as captain; one forward,
\* the goalkeeper as vice-captain
scoring_role_choices ==
    { mk_roles(nominal_xi, 2, 7, 12, 15, 13, 8),
      mk_roles(<<1, 3, 4, 5, 8, 9, 10, 11, 16, 13, 14>>, 2, 12, 7, 15, 3, 13),
      mk_roles(<<1, 3, 4, 5, 6, 18, 8, 9, 10, 11, 13>>, 2, 12, 16, 14, 13, 1) }

\* the minutes of a round where the players of absent did not play: those
\* with an id that 3 divides have no row at all, the others a row with 0
scoring_minutes(absent) ==
    [p \in {q \in Players : ~(q \in absent /\ q % 3 = 0)} |->
        IF p \in absent THEN 0 ELSE 90]

\* the total_points of the round: player p has p points on record, the
\* players 9 and 12 have no record
scoring_total_points == [p \in Players \ {9, 12} |-> p]

\* defaultdict(lambda: 0, total_points)
defaultdict_zero(total_points) ==
    [p \in Players |->
        IF p \in DOMAIN total_points THEN total_points[p] ELSE 0]

\* faulty variant of points_scored: the roles as submitted are scored
points_scored_nominal(roles, minutes, element_types, total_points) ==
    calculate_points(roles, defaultdict_zero(total_points))

\* update: gameweek_points, from the roles and the data of the round
points_scored(roles, minutes, element_types, total_points) ==
    calculate_points(
        make_automatic_substitutions(roles, minutes, element_types),
        defaultdict_zero(total_points))

\* the simulator as constructed, and a role assignment and a round's
\* absentees still to be scored
ScoringInputs ==
    /\ lru = <<>>
    /\ provider_calls = no_calls
    /\ ledger = no_rounds
    /\ \E roles \in scoring_role_choices :
        \E absent \in {a \in SUBSET new_squad_of(roles) :
                            Cardinality(a) <= MaxAbsent} :
            probe = [op |-> "score", roles |-> roles, absent |-> absent,
                     done |-> FALSE, substituted_roles |-> roles,
                     gameweek_points |-> 0]

\* update, from make_automatic_substitutions to calculate_points
ScoreRound ==
    /\ probe.op = "score"
    /\ ~probe.done
    /\ probe' = [probe EXCEPT
            !.done = TRUE,
            !.substituted_roles =
                make_automatic_substitutions(probe.roles,
                    scoring_minutes(probe.absent),
                    element_types_at(first_gameweek)),
            !.gameweek_points =
                points_scored(probe.roles, scoring_minutes(probe.absent),
                    element_types_at(first_gameweek), scoring_total_points)]
    /\ UNCHANGED <<fields, static_elements_cache, all_valid, last,
                   lru, provider_calls, ledger>>

NextScoring == ScoreRound

InitScoring == Init /\ ScoringInputs

SpecScoring == InitScoring /\ [][NextScoring]_vars

----------------------------------------------------------------------------
(* Properties *)

\* the fields a call of update assigns
assigned == <<season_points, squad, budget, purchase_prices,
              free_transfers, next_gameweek>>

\* the round of the call recorded in c was exempt from transfer accounting
exempt(c) ==
    c.gameweek = first_gameweek \/ c.gameweek \in Range(c.wildcard_gameweeks)

clamp(x, lo, hi) == IF x < lo THEN lo ELSE IF x > hi THEN hi ELSE x

\* C1: every update call is all-or-nothing: a call either runs to its end,
\* or leaves season_points, squad, budget, purchase_prices, free_transfers
\* and next_gameweek all at their values before the call.  Stated for the
\* calls whose roles are valid, which the claim covers whatever the log flag.
C1_AllOrNothing ==
    [][last'.valid => (last'.outcome = "ok" \/ UNCHANGED assigned)]_vars

\* C2: as long as every update call had a valid role assignment, the squad
\* is a set of exactly 15 player identifiers.
C2_SquadOfFifteen ==
    all_valid => (squad \subseteq Players /\ Cardinality(squad) = 15)

\* a call with valid roles and three transfers has run to its end
C2_Witness ==
    /\ all_valid
    /\ last.outcome = "ok"
    /\ last.transfers_made = 3
    /\ Cardinality(squad) = 15

\* C3: free_transfers is an integer from 0 to 5 in every reachable state.
C3_FreeTransfersInRange == free_transfers \in 0..5

\* a call on a round that is not exempt started with 5 free transfers, made
\* none, and ended with 5
C3_Witness ==
    /\ last.outcome = "ok"
    /\ ~exempt(last)
    /\ last.free_transfers = 5
    /\ last.transfers_made = 0
    /\ free_transfers = 5

\* C4: on a round that is neither the first nor a wildcard round, a call
\* that runs to its end counts transfers_made = |old squad \ new squad|,
\* charges 4 * max(0, transfers_made - free_transfers) on the free transfers
\* it started with, and leaves clamp(free_transfers - transfers_made + 1, 0, 5)
\* free transfers.
C4_PenaltyAndBanking ==
    [][(last'.outcome = "ok" /\ ~exempt(last')) =>
        LET made == Cardinality(squad \ squad')
            cost == 4 * (IF made > free_transfers
                         THEN made - free_transfers ELSE 0)
        IN  /\ last'.transfers_made = made
            /\ last'.transfer_cost = cost
            /\ season_points' = season_points + last'.gameweek_points - cost
            /\ free_transfers' = clamp(free_transfers - made + 1, 0, 5)]_vars

\* the scenario of the design document: 1 free transfer, 3 transfers made,
\* cost 8, no free transfer left
C4_Witness ==
    /\ last.outcome = "ok"
    /\ ~exempt(last)
    /\ last.free_transfers = 1
    /\ last.transfers_made = 3
    /\ last.transfer_cost = 8
    /\ free_transfers = 0

\* C5: on the first round or a wildcard round, a call that runs to its end
\* charges nothing for any number of transfers and leaves free_transfers as
\* it was.
C5_ExemptRound ==
    [][(last'.outcome = "ok" /\ exempt(last')) =>
        /\ last'.transfer_cost = 0
        /\ season_points' = season_points + last'.gameweek_points
        /\ free_transfers' = free_transfers]_vars

\* a wildcard round after the first, with 3 transfers and 2 free transfers
\* kept
C5_Witness ==
    /\ last.outcome = "ok"
    /\ last.gameweek > first_gameweek
    /\ last.gameweek \in Range(last.wildcard_gameweeks)
    /\ last.transfers_made = 3
    /\ last.transfer_cost = 0
    /\ last.free_transfers = 2
    /\ free_transfers = 2

\* C6: once next_gameweek exceeds last_gameweek the season is complete: a
\* call made then is not accepted and changes none of the fields, so
\* next_gameweek never exceeds last_gameweek + 1.  Stated for the calls
\* that do not fail while printing.
C6_NoAdvanceOnceComplete ==
    [][last'.outcome # "PrintFailed" =>
        /\ next_gameweek > last_gameweek =>
                (last'.outcome # "ok" /\ UNCHANGED assigned)
        /\ next_gameweek' <= last_gameweek + 1]_vars

\* C7: a call that runs to its end moves next_gameweek up by exactly 1,
\* except that in season 2022-23 the call at round 6 moves it to 8; round 7
\* is never the current round of that season; no other step moves
\* next_gameweek, so the skip happens once in a run and in no other season.
C7_GameweekAdvance ==
    [][/\ last'.outcome = "ok" =>
            next_gameweek' = IF season = "2022-23" /\ next_gameweek = 6
                             THEN 8 ELSE next_gameweek + 1
       /\ last'.outcome # "ok" => next_gameweek' = next_gameweek
       /\ next_gameweek' - next_gameweek = 2 =>
            (season = "2022-23" /\ next_gameweek = 6)
       /\ season' = "2022-23" => next_gameweek' # 7]_vars

\* the call at round 6 of season 2022-23 has run to its end
C7_Witness ==
    /\ season = "2022-23"
    /\ last.outcome = "ok"
    /\ last.gameweek = 6
    /\ next_gameweek = 8

\* C8: a call whose role assignment breaks the invariants of a role
\* assignment is rejected: it does not run to its end and changes none of
\* the fields.  Stated for the calls that do not fail while printing.
C8_InvalidRolesRejected ==
    [][(~last'.valid /\ last'.outcome # "PrintFailed") =>
        (last'.outcome # "ok" /\ UNCHANGED assigned)]_vars

\* the results have no row for the round
results_missing(gw) == minutes_at(gw) = no_rows

\* C9: when the results or the snapshot of next_gameweek are missing, the
\* call fails before it assigns anything: it does not score the round, and
\* none of the fields changes.  Stated for the calls with valid roles that
\* do not fail while printing.
C9_MissingDataFails ==
    [][(/\ last'.valid
        /\ last'.outcome # "PrintFailed"
        /\ results_missing(next_gameweek) \/ last'.outcome = "DataUnavailable")
        => (last'.outcome # "ok" /\ UNCHANGED assigned)]_vars

\* C10: after a call that runs to its end, the budget is the old budget plus
\* the selling prices of the players who left minus the market prices of
\* the players who came, all at the snapshot of the round of the call; with
\* no transfers the budget is unchanged.
C10_BudgetAfterTransfers ==
    [][last'.outcome = "ok" =>
        LET market == [p \in Players |-> now_cost_of(next_gameweek, p)]
            selling == [p \in squad |->
                          selling_price(purchase_prices[p], market[p])]
        IN  /\ budget' = budget + SumSet(selling, squad \ squad')
                                - SumSet(market, squad' \ squad)
            /\ squad' = squad => budget' = budget]_vars

\* player 15, bought at 55 and worth 52 on the market, has been sold at 53
\* for player 17 at 57
C10_Witness ==
    /\ last.outcome = "ok"
    /\ last.gameweek \in 2..3
    /\ last.transfers_made = 1
    /\ squad = (1..14) \cup {17}
    /\ budget = InitialBank + 53 - 57

\* C11: after a call that returns, purchase_prices has an entry for exactly
\* the players of the new squad: a player who stays keeps his purchase
\* price whatever the market does, a player who arrives gets the market
\* price of the round, and the entries of those who left are gone.
C11_PurchasePrices ==
    [][last'.outcome = "ok" =>
        /\ DOMAIN purchase_prices' = squad'
        /\ \A p \in squad' \cap squad :
                purchase_prices'[p] = purchase_prices[p]
        /\ \A p \in squad' \ squad :
                purchase_prices'[p] = now_cost_of(next_gameweek, p)]_vars

\* player 15, bought at the market price 52 after player 17 had taken his
\* place, is kept through the round where the market moves to 57
C11_Witness ==
    /\ last.outcome = "ok"
    /\ last.gameweek = 4
    /\ last.transfers_made = 0
    /\ now_cost_of(last.gameweek, 15) = 57
    /\ 15 \in squad
    /\ purchase_prices[15] = 52
    /\ 17 \notin DOMAIN purchase_prices

\* C12: the selling price is the market price when the market price is at
\* least the purchase price; below it, the selling price is the purchase
\* price minus half of the drop, rounded down to a whole tick, and never
\* more than the purchase price (50 and 70 give 70, 50 and 30 give 40).
C12_SellingPrice ==
    (probe.op = "get_selling_prices" /\ probe.done) =>
        LET drop == probe.purchase - probe.market
        IN  /\ probe.market >= probe.purchase => probe.result = probe.market
            /\ probe.market < probe.purchase =>
                    /\ 2 * probe.result <= 2 * probe.purchase - drop
                    /\ 2 * probe.purchase - drop < 2 * probe.result + 2
                    /\ probe.result <= probe.purchase
            /\ (probe.purchase = 50 /\ probe.market = 70) => probe.result = 70
            /\ (probe.purchase = 50 /\ probe.market = 30) => probe.result = 40

\* a drop of 3, whose half is not a whole tick: 55 and 52 give 53
C12_Witness ==
    /\ probe.op = "get_selling_prices"
    /\ probe.done
    /\ probe.purchase = 55
    /\ probe.market = 52
    /\ probe.result = 53

----------------------------------------------------------------------------
(* Properties of the scoring of one round *)

\* the round has been scored
scored == probe.op = "score" /\ probe.done

\* what the round's data say of a player
took_part(p) == p \notin probe.absent
points_on_record(p) == IF p \in {9, 12} THEN 0 ELSE p

\* at least 1 goalkeeper, 3 defenders and 1 forward among the starters xi
meets_minimums(xi) ==
    /\ \E i \in DOMAIN xi : element_type_of(xi[i]) = "GKP"
    /\ Cardinality({i \in DOMAIN xi : element_type_of(xi[i]) = "DEF"}) >= 3
    /\ \E i \in DOMAIN xi : element_type_of(xi[i]) = "FWD"

\* the starters at the time starter number i is looked at: the goalkeepers
\* and the starters before him as they ended up, the others as submitted
xi_before(i) ==
    [q \in DOMAIN probe.roles.starting_xi |->
        IF q < i \/ element_type_of(probe.roles.starting_xi[q]) = "GKP"
        THEN probe.substituted_roles.starting_xi[q]
        ELSE probe.roles.starting_xi[q]]

\* the outfield reserve submitted in slot k, and the slot's name
slot_order == <<"reserve_out_1", "reserve_out_2", "reserve_out_3">>
reserve_of(k) == probe.roles[slot_order[k]]

\* reserve k could have taken the place of starter number i: he played, he
\* had not been used, and the minimums would have been kept
usable(i, k) ==
    /\ took_part(reserve_of(k))
    /\ reserve_of(k) \notin Range(xi_before(i))
    /\ meets_minimums([xi_before(i) EXCEPT ![i] = reserve_of(k)])

\* C13: gameweek_points is the sum of the points of the effective starting
\* XI plus once more the points of the effective captain: the captain if
\* he played, else the vice-captain if he played, else nobody; a player
\* without a points record counts 0 and the reserves count nothing.
C13_GameweekPoints ==
    scored =>
        LET xi == Range(probe.substituted_roles.starting_xi)
            captain == probe.roles.captain
            vice_captain == probe.roles.vice_captain
            doubled == IF took_part(captain) THEN captain
                       ELSE IF took_part(vice_captain) THEN vice_captain
                       ELSE no_player
        IN  /\ probe.gameweek_points =
                    SumSet([p \in Players |-> points_on_record(p)], xi)
                    + (IF doubled = no_player THEN 0
                       ELSE points_on_record(doubled))
            /\ doubled # no_player => doubled \in xi

\* the captain, player 13, did not play and left the XI for reserve 7; the
\* points of the vice-captain, player 8, are counted twice: 69 + 8
C13_Witness ==
    /\ scored
    /\ probe.absent = {13}
    /\ probe.roles.captain = 13
    /\ probe.roles.vice_captain = 8
    /\ 13 \notin Range(probe.substituted_roles.starting_xi)
    /\ 7 \in Range(probe.substituted_roles.starting_xi)
    /\ probe.gameweek_points = 77

\* C14: the effective starting XI of a formation-valid submitted XI has at
\* least 1 goalkeeper, 3 defenders and 1 forward; every swap made kept
\* these minimums, and an outfield starter who did not play stays in the
\* XI only when no reserve could take his place.
C14_FormationKept ==
    scored =>
        LET nominal == probe.roles.starting_xi
            effective == probe.substituted_roles.starting_xi
        IN  /\ meets_minimums(nominal)
            /\ Len(effective) = 11
            /\ meets_minimums(effective)
            /\ \A i \in DOMAIN nominal :
                    effective[i] # nominal[i] =>
                        meets_minimums([xi_before(i) EXCEPT ![i] = effective[i]])
            /\ \A i \in DOMAIN nominal :
                    (/\ element_type_of(nominal[i]) # "GKP"
                     /\ ~took_part(nominal[i])
                     /\ effective[i] = nominal[i])
                    => \A k \in DOMAIN slot_order : ~usable(i, k)

\* defender 3 of an XI with three defenders did not play: midfielder 12,
\* the first reserve, is passed over and defender 7, the second, comes in
C14_Witness ==
    /\ scored
    /\ probe.absent = {3}
    /\ probe.roles.reserve_out_1 = 12
    /\ probe.roles.reserve_out_2 = 7
    /\ probe.substituted_roles.reserve_out_1 = 12
    /\ probe.substituted_roles.reserve_out_2 = 3
    /\ 7 \in Range(probe.substituted_roles.starting_xi)

\* C15: the reserve goalkeeper comes in only for a starting goalkeeper who
\* did not play, only if he played himself, and the two change places; the
\* outfield reserves are tried in the order of their slots against the
\* outfield starters who did not play, in the order of the submitted list;
\* nobody who did not play comes in, nobody who played goes out, and a
\* reserve is used at most once.
C15_SubstitutionOrder ==
    scored =>
        LET nominal == probe.roles.starting_xi
            effective == probe.substituted_roles.starting_xi
            gkp == probe.roles.reserve_gkp
            idle_keepers == {i \in DOMAIN nominal :
                                /\ element_type_of(nominal[i]) = "GKP"
                                /\ ~took_part(nominal[i])}
        IN  /\ gkp \in Range(effective) <=>
                    (idle_keepers # {} /\ took_part(gkp))
            /\ gkp \in Range(effective) =>
                    \E i \in idle_keepers :
                        /\ effective[i] = gkp
                        /\ probe.substituted_roles.reserve_gkp = nominal[i]
            /\ \A i \in DOMAIN nominal :
                    effective[i] # nominal[i] =>
                        took_part(effective[i]) /\ ~took_part(nominal[i])
            /\ \A i, j \in DOMAIN effective :
                    i # j => effective[i] # effective[j]
            /\ \A i \in DOMAIN nominal : \A k \in DOMAIN slot_order :
                    (effective[i] = reserve_of(k)) =>
                        /\ element_type_of(nominal[i]) # "GKP"
                        /\ probe.substituted_roles[slot_order[k]] = nominal[i]
                        /\ \A j \in 1..(k - 1) : ~usable(i, j)

\* goalkeeper 1 did not play and has changed places with reserve goalkeeper
\* 2; midfielder 9 did not play either: reserve 7, who did not play, is
\* passed over and reserve 12 comes in; the captain is as submitted
C15_Witness ==
    /\ scored
    /\ probe.absent = {1, 7, 9}
    /\ probe.substituted_roles.starting_xi[1] = 2
    /\ probe.substituted_roles.reserve_gkp = 1
    /\ probe.substituted_roles.reserve_out_1 = 7
    /\ probe.substituted_roles.reserve_out_2 = 9
    /\ 12 \in Range(probe.substituted_roles.starting_xi)
    /\ probe.substituted_roles.captain = 13

\* the four reserves of a role assignment
reserves_of(roles) ==
    {roles.reserve_gkp, roles.reserve_out_1, roles.reserve_out_2,
     roles.reserve_out_3}

\* C20: the effective assignment has the 15 players of the submitted one,
\* as 11 starters and 4 reserves; so the squad, the transfers made, their
\* cost, the budget and the purchase prices are the same whether they are
\* taken from the submitted roles or from the effective ones, whoever
\* played: the minutes reach gameweek_points only.
C20_SamePlayers ==
    scored =>
        LET nominal == probe.roles
            effective == probe.substituted_roles
        IN  /\ Len(effective.starting_xi) = 11
            /\ Cardinality(Range(effective.starting_xi)) = 11
            /\ Cardinality(reserves_of(effective)) = 4
            /\ Range(effective.starting_xi) \cap reserves_of(effective) = {}
            /\ Range(effective.starting_xi) \cup reserves_of(effective)
                    = Range(nominal.starting_xi) \cup reserves_of(nominal)
            /\ new_squad_of(effective) = new_squad_of(nominal)
            /\ transfer_cost_of(effective, <<>>) = transfer_cost_of(nominal, <<>>)
            /\ new_budget_of(effective) = new_budget_of(nominal)
            /\ new_purchase_prices_of(effective) = new_purchase_prices_of(nominal)

\* the only forward, player 13, did not play: the midfielders 12 and 16 are
\* passed over, forward 14 and he change places, and the squad submitted,
\* two transfers away from the squad held, is the squad of the effective roles
C20_Witness ==
    /\ scored
    /\ probe.absent = {13}
    /\ probe.roles.reserve_out_3 = 14
    /\ probe.substituted_roles.reserve_out_3 = 13
    /\ 14 \in Range(probe.substituted_roles.starting_xi)
    /\ count_transfers(squad, new_squad_of(probe.substituted_roles)) = 2
    /\ new_squad_of(probe.substituted_roles) = new_squad_of(probe.roles)

----------------------------------------------------------------------------
(* Properties of the ledger *)

RECURSIVE net_points(_)
\* the sum of gameweek_points - transfer_cost over the rounds of a ledger
net_points(rounds) ==
    IF rounds = <<>> THEN 0
    ELSE Head(rounds).gameweek_points - Head(rounds).transfer_cost
         + net_points(Tail(rounds))

\* C16: after any sequence of calls that returned, season_points is the
\* sum, from 0, of gameweek_points - transfer_cost over the rounds played;
\* the total may be negative.
C16_SeasonPointsIsTheSum ==
    /\ season_points = net_points(ledger)
    /\ \A i \in DOMAIN ledger : ledger[i].outcome = "ok"
    /\ ledger = <<>> => season_points = 0

\* two rounds played, 4 points for the first, 4 points and a cost of 12 for
\* the second: the total is -4
C16_Witness ==
    /\ Len(ledger) = 2
    /\ ledger[1].gameweek_points = 4
    /\ ledger[1].transfer_cost = 0
    /\ ledger[2].gameweek_points = 4
    /\ ledger[2].transfer_cost = 12
    /\ season_points = -4

\* C18: free_transfers is 0 from construction until a round that is not
\* exempt has been played, the first round leaving it at 0 whatever the
\* roles; so in the first round that is not exempt every transfer made
\* costs 4 points.
C18_NoFreeTransferAtFirst ==
    /\ (\A i \in DOMAIN ledger : exempt(ledger[i])) => free_transfers = 0
    /\ \A i \in DOMAIN ledger :
            ledger[i].gameweek = first_gameweek =>
                (ledger[i].free_transfers = 0 /\ ledger[i].transfer_cost = 0)
    /\ \A i \in DOMAIN ledger :
            (/\ ~exempt(ledger[i])
             /\ \A j \in 1..(i - 1) : exempt(ledger[j]))
            => /\ ledger[i].free_transfers = 0
               /\ ledger[i].transfer_cost = 4 * ledger[i].transfers_made

\* the first round and a wildcard round with 3 transfers have been played;
\* the third round, the first that is not exempt, charges 12 points for its
\* 3 transfers
C18_Witness ==
    /\ Len(ledger) = 3
    /\ ledger[2].gameweek \in Range(ledger[2].wildcard_gameweeks)
    /\ ledger[2].transfers_made = 3
    /\ ledger[2].transfer_cost = 0
    /\ ~exempt(ledger[3])
    /\ ledger[3].transfers_made = 3
    /\ ledger[3].transfer_cost = 12
    /\ free_transfers = 0

----------------------------------------------------------------------------
(* Properties of the memo *)

\* C17: the fetches are memoized per key, populate once and read many: for
\* every key the provider is invoked at most once, whatever other keys are
\* fetched in between and in whatever order.
C17_FetchedOnce ==
    \A k \in DOMAIN provider_calls : provider_calls[k] <= 1

----------------------------------------------------------------------------
(* Properties of the team value *)

\* the bank and the selling prices of the players of sq, bought at the
\* prices bought, at the snapshot of gameweek gw
value_at(gw, sq, bought, bank) ==
    bank + SumSet([p \in sq |-> selling_price(bought[p], now_cost_of(gw, p))],
                  sq)

\* C19: transfers do not change the team value measured at the snapshot
\* of the round: whatever the new squad, new_team_value, the new budget
\* plus the selling prices of the new squad, is the old budget plus the
\* selling prices of the old squad; and so it is for the squad and the
\* budget a call that returns leaves behind.
C19_TeamValueKept ==
    [][/\ \A roles \in role_choices :
            new_team_value_of(roles) =
                value_at(next_gameweek, squad, purchase_prices, budget)
       /\ last'.outcome = "ok" =>
            value_at(next_gameweek, squad', purchase_prices', budget') =
                value_at(next_gameweek, squad, purchase_prices, budget)]_vars

\* in the second round player 15, bought at 55 and worth 52, has been sold
\* at 53 for player 17 at 57: the team value is still 25 + 665 + 53
C19_Witness ==
    /\ Len(ledger) = 2
    /\ ledger[2].gameweek = 2
    /\ ledger[2].transfers_made = 1
    /\ 15 \notin squad
    /\ 17 \in squad
    /\ budget = 21
    /\ value_at(2, squad, purchase_prices, budget) = 743

====
